---- MODULE Spec2Model ----
(***************************************************************************)
(* A model of process_tarkov_raid.py: the timestamp parser, the OCR line   *)
(* cleaner, the fuzzy kill-line matcher (difflib.SequenceMatcher.ratio),   *)
(* and the main process that prompts for two timestamps, calls the decoder *)
(* once, lists the frames directory and appends the records of each frame  *)
(* to the kill log.                                                        *)
(*                                                                         *)
(* A Python str is modelled as a sequence of one-character strings;        *)
(* Chars("ab") is <<"a", "b">>.  The three non-ASCII characters of the     *)
(* literal on line 47 are the atoms "U+00E2", "U+20AC" and "U+201D".       *)
(***************************************************************************)
EXTENDS Integers, Sequences, FiniteSets, TLC

VARIABLES
  \* parse_timestamp applied to one string
  timestamp, seconds,
  \* clean_ocr_line applied once and twice to one line
  line, cleaned, recleaned,
  \* parse_kill_list applied to one OCR text
  ocr_text, kill_data,
  \* how many times the function under study has been applied
  applied,
  \* the main process
  pc, first_kill_time, kill_list_time, output_dir, frame_list, frame,
  log_file, ffmpeg_runs, ffmpeg_result, errors,
  \* history of the run: what was typed at the prompts, the log before the
  \* run, and what each frame yielded
  typed, log_before, processed

vars == <<timestamp, seconds, line, cleaned, recleaned, ocr_text, kill_data,
          applied, pc, first_kill_time, kill_list_time, output_dir,
          frame_list, frame, log_file, ffmpeg_runs, ffmpeg_result, errors,
          typed, log_before, processed>>

pure_vars == <<timestamp, seconds, line, cleaned, recleaned, ocr_text,
               kill_data, applied>>

run_vars == <<pc, first_kill_time, kill_list_time, output_dir, frame_list,
              frame, log_file, ffmpeg_runs, ffmpeg_result, errors,
              typed, log_before, processed>>

----------------------------------------------------------------------------
(* Python str primitives *)

Chars(s) == [i \in 1..Len(s) |-> SubSeq(s, i, i)]

Range(s) == {s[i] : i \in 1..Len(s)}

Digits == Range(Chars("0123456789"))

Letters ==
  Range(Chars("abcdefghijklmnopqrstuvwxyzABCDEFGHIJKLMNOPQRSTUVWXYZ"))

\* str.strip() and str.split() with no argument act on whitespace
Whitespace == {" ", "\t", "\n", "\r", "\f"}

\* the line boundaries of str.splitlines() among the modelled characters
LineBreaks == {"\n", "\r", "\f"}

\* the printable ASCII characters in code-point order, from U+0020
\* (the grave accent, which a TLA+ string cannot hold, is the atom "U+0060")
AsciiPrintable ==
  Chars(" !\"#$%&'()*+,-./0123456789:;<=>?@ABCDEFGHIJKLMNOPQRSTUVWXYZ[\\]^_")
  \o <<"U+0060">> \o Chars("abcdefghijklmnopqrstuvwxyz{|}~")

\* ord(c) for a printable ASCII character
ord(c) == 31 + (CHOOSE i \in 1..Len(AsciiPrintable) : AsciiPrintable[i] = c)

DigitValue(c) == ord(c) - ord("0")

\* s[from:] in Python's 0-based slicing is Drop(s, from)
Drop(s, n) == SubSeq(s, n + 1, Len(s))

StartsWith(s, p) == Len(p) <= Len(s) /\ SubSeq(s, 1, Len(p)) = p

\* str.replace(old, new): leftmost non-overlapping occurrences, old non-empty
RECURSIVE str_replace(_, _, _)
str_replace(s, old, new) ==
  IF s = <<>> THEN <<>>
  ELSE IF StartsWith(s, old)
       THEN new \o str_replace(Drop(s, Len(old)), old, new)
       ELSE <<Head(s)>> \o str_replace(Tail(s), old, new)

\* re.sub(r'[^...]', '', s): delete every character outside the class
re_sub_delete(s, class) == SelectSeq(s, LAMBDA c : c \in class)

RECURSIVE lstrip(_)
lstrip(s) ==
  IF s # <<>> /\ Head(s) \in Whitespace THEN lstrip(Tail(s)) ELSE s

RECURSIVE rstrip(_)
rstrip(s) ==
  IF s # <<>> /\ s[Len(s)] \in Whitespace
  THEN rstrip(SubSeq(s, 1, Len(s) - 1))
  ELSE s

strip(s) == rstrip(lstrip(s))

\* the length of the longest prefix of s with no character of seps
RECURSIVE span_until(_, _)
span_until(s, seps) ==
  IF s = <<>> \/ Head(s) \in seps THEN 0 ELSE 1 + span_until(Tail(s), seps)

\* str.split(sep) with a one-character sep: empty fields are kept
RECURSIVE split_on(_, _)
split_on(s, sep) ==
  LET n == span_until(s, {sep})
  IN IF n = Len(s) THEN <<s>>
     ELSE <<SubSeq(s, 1, n)>> \o split_on(Drop(s, n + 1), sep)

\* str.split(): fields separated by runs of whitespace, none empty
RECURSIVE split(_)
split(s) ==
  LET t == lstrip(s)
      n == span_until(t, Whitespace)
  IN IF t = <<>> THEN <<>>
     ELSE <<SubSeq(t, 1, n)>> \o split(Drop(t, n))

\* str.splitlines(): "\r\n" is one boundary, a final boundary ends the last
\* line and adds no empty one
RECURSIVE splitlines(_)
splitlines(s) ==
  LET n == span_until(s, LineBreaks)
      brk == IF StartsWith(Drop(s, n), <<"\r", "\n">>) THEN 2 ELSE 1
  IN IF s = <<>> THEN <<>>
     ELSE IF n = Len(s) THEN <<s>>
     ELSE <<SubSeq(s, 1, n)>> \o splitlines(Drop(s, n + brk))

\* sep.join(parts)
RECURSIVE join(_, _)
join(sep, parts) ==
  IF parts = <<>> THEN <<>>
  ELSE IF Len(parts) = 1 THEN parts[1]
  ELSE parts[1] \o sep \o join(sep, Tail(parts))

\* the result of a call: a value, or an exception that propagates
Returned(v) == [raised |-> FALSE, value |-> v]

ValueError == [raised |-> TRUE, value |-> 0]

\* digits with single underscores between them, as int() accepts
RECURSIVE IsDigitString(_)
IsDigitString(s) ==
  /\ s # <<>>
  /\ Head(s) \in Digits
  /\ \/ Len(s) = 1
     \/ IsDigitString(Tail(s))
     \/ Len(s) >= 3 /\ s[2] = "_" /\ IsDigitString(Drop(s, 2))

RECURSIVE DecimalValue(_)
DecimalValue(s) ==
  IF s = <<>> THEN 0
  ELSE IF s[Len(s)] = "_" THEN DecimalValue(SubSeq(s, 1, Len(s) - 1))
  ELSE 10 * DecimalValue(SubSeq(s, 1, Len(s) - 1)) + DigitValue(s[Len(s)])

\* int(s) for a str: surrounding whitespace and one sign are accepted
int(s) ==
  LET t == strip(s)
      signed == t # <<>> /\ Head(t) \in {"+", "-"}
      body == IF signed THEN Tail(t) ELSE t
  IN IF ~IsDigitString(body) THEN ValueError
     ELSE IF signed /\ Head(t) = "-" THEN Returned(0 - DecimalValue(body))
     ELSE Returned(DecimalValue(body))

----------------------------------------------------------------------------
(* parse_timestamp *)

\* minutes * 60 + seconds (line 35) with the operands swapped
parse_timestamp_swapped(ts) ==
  IF ":" \in Range(ts)
  THEN LET fields == split_on(ts, ":")
       IN IF Len(fields) # 2 THEN ValueError
          ELSE IF int(fields[1]).raised \/ int(fields[2]).raised
               THEN ValueError
          ELSE Returned(int(fields[1]).value + int(fields[2]).value * 60)
  ELSE int(ts)

\* minutes, seconds = map(int, ...) raises ValueError when a field is no
\* integer or when there are not exactly two fields
parse_timestamp(ts) ==
  IF ":" \in Range(ts)
  THEN LET fields == split_on(ts, ":")
       IN IF Len(fields) # 2 THEN ValueError
          ELSE IF int(fields[1]).raised \/ int(fields[2]).raised
               THEN ValueError
          ELSE Returned(int(fields[1]).value * 60 + int(fields[2]).value)
  ELSE int(ts)

----------------------------------------------------------------------------
(* clean_ocr_line *)

\* the characters kept by re.sub(r'[^a-zA-Z0-9 :.,\-]', '', line)
KeptChars == Letters \cup Digits \cup {" ", ":", ".", ",", "-"}

\* the literal of line 47: U+00E2 U+20AC U+201D
MisdecodedDash == <<"U+00E2", "U+20AC", "U+201D">>

\* clean_ocr_line with the strip applied before the re.sub
clean_ocr_line_strip_first(l) ==
  LET l1 == str_replace(l, <<"O">>, <<"0">>)
      l2 == str_replace(l1, <<"Q">>, <<"0">>)
      l3 == str_replace(l2, MisdecodedDash, <<"-">>)
      l4 == str_replace(l3, <<"=">>, <<"-">>)
  IN re_sub_delete(strip(l4), KeptChars)

clean_ocr_line(l) ==
  LET l1 == str_replace(l, <<"O">>, <<"0">>)
      l2 == str_replace(l1, <<"Q">>, <<"0">>)
      l3 == str_replace(l2, MisdecodedDash, <<"-">>)
      l4 == str_replace(l3, <<"=">>, <<"-">>)
      l5 == re_sub_delete(l4, KeptChars)
  IN strip(l5)

----------------------------------------------------------------------------
(* fuzzy_match: difflib.SequenceMatcher(None, text, pattern).ratio() > 0.6 *)
(* Indices are Python's: a[i] is a[i + 1] here, ranges are [lo, hi).       *)
(* No junk: isjunk is None, and autojunk needs a second sequence of 200    *)
(* or more elements, which the two patterns are not.                       *)

\* the length of the common run of a[i:ahi] and b[j:bhi]
RECURSIVE common_run(_, _, _, _, _, _)
common_run(a, b, i, j, ahi, bhi) ==
  IF i < ahi /\ j < bhi /\ a[i + 1] = b[j + 1]
  THEN 1 + common_run(a, b, i + 1, j + 1, ahi, bhi)
  ELSE 0

\* the maximal blocks a[i:i+k] = b[j:j+k], k > 0, of a[alo:ahi], b[blo:bhi],
\* one for each pair of positions holding the same element
matching_blocks(a, b, alo, ahi, blo, bhi) ==
  {[i |-> p[1], j |-> p[2], k |-> common_run(a, b, p[1], p[2], ahi, bhi)] :
     p \in {q \in (alo..(ahi - 1)) \X (blo..(bhi - 1)) :
              a[q[1] + 1] = b[q[2] + 1]}}

\* m is found before n: it is longer, or as long and earlier in a, or as
\* long, at the same place in a and no later in b
found_first(m, n) ==
  \/ m.k > n.k
  \/ m.k = n.k /\ m.i < n.i
  \/ m.k = n.k /\ m.i = n.i /\ m.j <= n.j

longest_of(blocks, alo, blo) ==
  IF blocks = {} THEN [i |-> alo, j |-> blo, k |-> 0]
  ELSE CHOOSE m \in blocks : \A n \in blocks : found_first(m, n)

\* SequenceMatcher.find_longest_match: the longest block a[i:i+k] = b[j:j+k]
\* in a[alo:ahi], b[blo:bhi]; of the longest, the one starting earliest in
\* a, and of those the one starting earliest in b; (alo, blo, 0) if none
find_longest_match(a, b, alo, ahi, blo, bhi) ==
  longest_of(matching_blocks(a, b, alo, ahi, blo, bhi), alo, blo)

\* the total size of SequenceMatcher.get_matching_blocks: the longest match
\* m, then the same to its left and to its right
RECURSIVE matches(_, _, _, _, _, _)
matches_around(a, b, alo, ahi, blo, bhi, m) ==
  IF m.k = 0 THEN 0
  ELSE m.k
       + (IF alo < m.i /\ blo < m.j
          THEN matches(a, b, alo, m.i, blo, m.j) ELSE 0)
       + (IF m.i + m.k < ahi /\ m.j + m.k < bhi
          THEN matches(a, b, m.i + m.k, ahi, m.j + m.k, bhi) ELSE 0)

matches(a, b, alo, ahi, blo, bhi) ==
  matches_around(a, b, alo, ahi, blo, bhi,
                 find_longest_match(a, b, alo, ahi, blo, bhi))

\* SequenceMatcher.ratio: 2.0 * matches / (len(a) + len(b)) as a fraction,
\* and 1.0 when both are empty
ratio(a, b) ==
  IF Len(a) + Len(b) = 0 THEN [num |-> 1, den |-> 1]
  ELSE [num |-> 2 * matches(a, b, 0, Len(a), 0, Len(b)),
        den |-> Len(a) + Len(b)]

\* r > 0.6 on the exact fraction (a ratio of small integers that is not 3/5
\* does not round to the double 0.6, and 3/5 rounds to it exactly)
above_threshold(r) == 10 * r.num > 6 * r.den

below_threshold(r) == 10 * r.num < 6 * r.den

\* fuzzy_match with the comparison reversed
fuzzy_match_reversed(text, pattern) == below_threshold(ratio(text, pattern))

fuzzy_match(text, pattern) == above_threshold(ratio(text, pattern))

----------------------------------------------------------------------------
(* parse_kill_list *)

\* the f-string of line 67
kill_record(parts) ==
  Chars("Time: ") \o parts[2] \o Chars(" | Name: ") \o parts[3]
  \o Chars(" | Faction: ") \o parts[5] \o Chars(" | Weapon: ")
  \o join(<<" ">>, Drop(parts, 5))

\* lines 58-67 with `or` for `and` on line 58
matched_kill_either(c) ==
  IF (fuzzy_match(c, Chars("Customs")) \/ fuzzy_match(c, Chars("SCAV")))
     /\ Len(split(c)) >= 5
  THEN <<kill_record(split(c))>>
  ELSE <<>>

\* lines 58-67: what the cleaned line appends to kill_data
matched_kill(c) ==
  IF fuzzy_match(c, Chars("Customs")) /\ fuzzy_match(c, Chars("SCAV"))
     /\ Len(split(c)) >= 5
  THEN <<kill_record(split(c))>>
  ELSE <<>>

\* the body of the loop (lines 57-67): what one line appends to kill_data
kill_lines(l) == matched_kill(clean_ocr_line(l))

RECURSIVE kill_data_of(_)
kill_data_of(lines) ==
  IF lines = <<>> THEN <<>>
  ELSE kill_lines(Head(lines)) \o kill_data_of(Tail(lines))

parse_kill_list(text) == kill_data_of(splitlines(text))

----------------------------------------------------------------------------
(* The frames directory and the kill log *)

\* str(n) for n >= 0
RECURSIVE str(_)
str(n) ==
  IF n < 10 THEN <<AsciiPrintable[n + 17]>>
  ELSE str(n \div 10) \o <<AsciiPrintable[(n % 10) + 17]>>

\* %04d of the decoder's output pattern: zero-padded to four digits
RECURSIVE zero_pad(_, _)
zero_pad(s, width) == IF Len(s) >= width THEN s ELSE zero_pad(<<"0">> \o s, width)

\* the n-th file the decoder writes for f"{prefix}_%04d.png" (line 100)
frame_name(prefix, n) ==
  prefix \o <<"_">> \o zero_pad(str(n), 4) \o Chars(".png")

\* x < y for two str: by code point, a proper prefix first
RECURSIVE str_less(_, _)
str_less(x, y) ==
  IF y = <<>> THEN FALSE
  ELSE IF x = <<>> THEN TRUE
  ELSE IF Head(x) = Head(y) THEN str_less(Tail(x), Tail(y))
  ELSE ord(Head(x)) < ord(Head(y))

\* sorted(...) left out of line 151: the order os.listdir gave
unsorted(l) == l

\* sorted(l) for a list of distinct str: the k-th is the one with k - 1
\* smaller ones
sorted(l) ==
  [k \in 1..Len(l) |->
     CHOOSE x \in Range(l) :
       Cardinality({y \in Range(l) : str_less(y, x)}) = k - 1]

\* os.listdir returns the entries in arbitrary order: every arrangement
listdir(dir) ==
  {entries \in [1..Cardinality(dir) -> dir] :
     \A i \in 1..Cardinality(dir), j \in 1..Cardinality(dir) :
       i # j => entries[i] # entries[j]}

\* f.write(f"{kill}\\n") for each kill of kill_list (lines 131-132)
RECURSIVE written(_)
written(kills) ==
  IF kills = <<>> THEN <<>>
  ELSE Head(kills) \o <<"\n">> \o written(Tail(kills))

\* the with-block of lines 130-133 with mode "w" for "a"
write_log_truncating(log, kill_list) == written(kill_list)

\* the with-block of lines 130-133: append mode, one f.write per record
write_log(log, kill_list) == log \o written(kill_list)

\* lines 129-133 and the return: the log written, what the matcher gave
logged(log, kill_list) ==
  [log |-> write_log(log, kill_list), kill_list |-> kill_list,
   errors |-> 0, ocr |-> TRUE, raised |-> FALSE]

\* process_kill_list without the `img is None` return: img.shape raises
process_kill_list_unguarded(log, img, text) ==
  IF img = "None"
  THEN [log |-> log, kill_list |-> <<>>, errors |-> 0, ocr |-> FALSE,
        raised |-> TRUE]
  ELSE logged(log, parse_kill_list(text))

\* process_kill_list(frame_file) on the image cv2.imread gave ("None" when
\* the file does not load) and the text pytesseract reads in its region:
\* the log afterwards, what parse_kill_list returned, the [ERROR] lines
\* printed, whether OCR ran
process_kill_list(log, img, text) ==
  IF img = "None"
  THEN [log |-> log, kill_list |-> <<>>, errors |-> 1, ocr |-> FALSE,
        raised |-> FALSE]
  ELSE logged(log, parse_kill_list(text))

\* extract_frames without the try/except around subprocess.run
extract_frames_uncaught(outcome) ==
  IF outcome = "exception" THEN [errors |-> 0, raised |-> TRUE]
  ELSE IF outcome = "nonzero" THEN [errors |-> 1, raised |-> FALSE]
  ELSE [errors |-> 0, raised |-> FALSE]

\* extract_frames on what subprocess.run did: returned with code 0,
\* returned with another code, or raised
extract_frames(outcome) ==
  IF outcome = "ok" THEN [errors |-> 0, raised |-> FALSE]
  ELSE [errors |-> 1, raised |-> FALSE]

\* a prompt that falls back to 0 when the input does not parse
prompt_timestamp_lenient(answer) ==
  IF parse_timestamp(strip(answer)).raised THEN Returned(0)
  ELSE parse_timestamp(strip(answer))

\* parse_timestamp(input(...).strip()) of lines 141 and 144
prompt_timestamp(answer) == parse_timestamp(strip(answer))

----------------------------------------------------------------------------
(* Bounds and inputs *)

MaxTsLen == 4
MaxLineLen == 4
MaxTokens == 5
MaxFrames == 2

\* all str over an alphabet up to a length
RECURSIVE StrUpTo(_, _)
StrUpTo(alphabet, n) ==
  IF n = 0 THEN {<<>>}
  ELSE LET shorter == StrUpTo(alphabet, n - 1)
       IN shorter \cup {<<c>> \o t : c \in alphabet,
                                     t \in {u \in shorter : Len(u) = n - 1}}

\* strings handed to parse_timestamp
TimestampInputs == StrUpTo(Range(Chars("0259:a-_ ")), MaxTsLen)

\* lines handed to clean_ocr_line
LineInputs ==
  StrUpTo({"O", "Q", "=", "U+00E2", "U+20AC", "U+201D", " ", "a", "#"},
          MaxLineLen)
  \cup {Chars("O1:Q5=Customs")}

\* lines of one-character tokens separated by single spaces
TokenLines ==
  {join(<<" ">>, [i \in 1..Len(t) |-> <<t[i]>>]) :
     t \in StrUpTo(Range(Chars("SCAVs")), MaxTokens)}

\* lines an OCR pass of the kill-list screen may give
SampleLines ==
  { Chars("12:34 Customs PMC SCAV AK-74"),
    Chars("12:34 Customs PMC SCAV AK-74 5.45x39 BT"),
    Chars("CustoSCAV"),
    Chars("Customs"),
    Chars("SCAV"),
    Chars("Cust SCAV"),
    Chars("C u s SCAV"),
    Chars("=Q= CustoSCAV #"),
    Chars("S C A V s"),
    <<>> }

\* texts handed to parse_kill_list: one line, or two lines and a boundary
OcrTexts ==
  TokenLines \cup SampleLines
  \cup {a \o brk \o b : a \in SampleLines, b \in SampleLines,
                        brk \in {<<"\n">>, <<"\r", "\n">>}}
  \cup {a \o <<"\n">> : a \in SampleLines}

\* what the user may type at a prompt
TypedInputs == {Chars(" 2:05 "), Chars("90"), Chars("abc"), <<>>}

\* files the frames directory may hold from an earlier run
Leftovers == {Chars("Thumbs.db"), Chars("end_0010.png")}

\* the kill log before the run: absent or empty, or holding earlier records
PriorLogs ==
  { <<>>,
    Chars("Time: 1 | Name: a | Faction: b | Weapon: c\n") }

\* what pytesseract may read in a frame's region
FrameTexts ==
  { <<>>,
    Chars("12:34 Customs PMC SCAV AK-74\nCustoSCAV\nS C A V s") }

\* what cv2.imread and pytesseract give for one frame file
Shots ==
  {[img |-> "None", text |-> <<>>]}
  \cup {[img |-> "image", text |-> t] : t \in FrameTexts}

None == [set |-> FALSE, value |-> 0]

Some(v) == [set |-> TRUE, value |-> v]

----------------------------------------------------------------------------
(* Pure functions applied to one input *)

\* no function applied yet
Unapplied ==
  /\ seconds = ValueError
  /\ cleaned = <<>>
  /\ recleaned = <<>>
  /\ kill_data = <<>>
  /\ applied = 0

IdleRun ==
  /\ pc = "idle"
  /\ first_kill_time = None
  /\ kill_list_time = None
  /\ output_dir = {}
  /\ frame_list = <<>>
  /\ frame = 0
  /\ log_file = <<>>
  /\ ffmpeg_runs = 0
  /\ ffmpeg_result = "none"
  /\ errors = 0
  /\ typed = <<>>
  /\ log_before = <<>>
  /\ processed = <<>>

InitTimestamp ==
  /\ timestamp \in TimestampInputs
  /\ line = <<>>
  /\ ocr_text = <<>>
  /\ Unapplied
  /\ IdleRun

ParseTimestamp ==
  /\ applied = 0
  /\ seconds' = parse_timestamp(timestamp)
  /\ applied' = 1
  /\ UNCHANGED <<timestamp, line, cleaned, recleaned, ocr_text, kill_data>>
  /\ UNCHANGED run_vars

SpecTimestamp == InitTimestamp /\ [][ParseTimestamp]_vars

InitClean ==
  /\ line \in LineInputs
  /\ timestamp = <<>>
  /\ ocr_text = <<>>
  /\ Unapplied
  /\ IdleRun

CleanLine ==
  /\ applied = 0
  /\ cleaned' = clean_ocr_line(line)
  /\ applied' = 1
  /\ UNCHANGED <<timestamp, seconds, line, recleaned, ocr_text, kill_data>>
  /\ UNCHANGED run_vars

CleanAgain ==
  /\ applied = 1
  /\ recleaned' = clean_ocr_line(cleaned)
  /\ applied' = 2
  /\ UNCHANGED <<timestamp, seconds, line, cleaned, ocr_text, kill_data>>
  /\ UNCHANGED run_vars

NextClean == CleanLine \/ CleanAgain

SpecClean == InitClean /\ [][NextClean]_vars

InitParse ==
  /\ ocr_text \in OcrTexts
  /\ timestamp = <<>>
  /\ line = <<>>
  /\ Unapplied
  /\ IdleRun

ParseKillList ==
  /\ applied = 0
  /\ kill_data' = parse_kill_list(ocr_text)
  /\ applied' = 1
  /\ UNCHANGED <<timestamp, seconds, line, cleaned, recleaned, ocr_text>>
  /\ UNCHANGED run_vars

SpecParse == InitParse /\ [][ParseKillList]_vars

----------------------------------------------------------------------------
(* The main process (lines 136-156).  pc is the statement about to run;    *)
(* frame counts the frames the loop of line 155 has taken; errors counts   *)
(* the [ERROR] lines printed.  The directories exist (lines 80-82) and may *)
(* hold files of an earlier run; so may the kill log.                      *)

Init ==
  /\ timestamp = <<>>
  /\ line = <<>>
  /\ ocr_text = <<>>
  /\ Unapplied
  /\ pc = "first_prompt"
  /\ first_kill_time = None
  /\ kill_list_time = None
  /\ output_dir \in SUBSET Leftovers
  /\ frame_list = <<>>
  /\ frame = 0
  /\ log_file \in PriorLogs
  /\ log_before = log_file
  /\ ffmpeg_runs = 0
  /\ ffmpeg_result = "none"
  /\ errors = 0
  /\ typed = <<>>
  /\ processed = <<>>

\* line 141: an uncaught ValueError ends the process
PromptFirstKill ==
  /\ pc = "first_prompt"
  /\ \E t \in TypedInputs :
       \E r \in {prompt_timestamp(t)} :
          /\ typed' = Append(typed, t)
          /\ first_kill_time' = IF r.raised THEN None ELSE Some(r.value)
          /\ pc' = IF r.raised THEN "aborted" ELSE "list_prompt"
  /\ UNCHANGED <<kill_list_time, output_dir, frame_list, frame, log_file,
                 ffmpeg_runs, ffmpeg_result, errors, log_before, processed>>
  /\ UNCHANGED pure_vars

\* line 144
PromptKillList ==
  /\ pc = "list_prompt"
  /\ \E t \in TypedInputs :
       \E r \in {prompt_timestamp(t)} :
          /\ typed' = Append(typed, t)
          /\ kill_list_time' = IF r.raised THEN None ELSE Some(r.value)
          /\ pc' = IF r.raised THEN "aborted" ELSE "extract"
  /\ UNCHANGED <<first_kill_time, output_dir, frame_list, frame, log_file,
                 ffmpeg_runs, ffmpeg_result, errors, log_before, processed>>
  /\ UNCHANGED pure_vars

\* line 149: the decoder runs once and writes the first n frames of the
\* window (none when subprocess.run itself raises)
ExtractFrames ==
  /\ pc = "extract"
  /\ \E outcome \in {"ok", "nonzero", "exception"}, n \in 0..MaxFrames :
       \E r \in {extract_frames(outcome)} :
          /\ outcome = "exception" => n = 0
          /\ ffmpeg_runs' = ffmpeg_runs + 1
          /\ ffmpeg_result' = outcome
          /\ output_dir' =
               output_dir \cup {frame_name(Chars("end"), k) : k \in 1..n}
          /\ errors' = errors + r.errors
          /\ pc' = IF r.raised THEN "aborted" ELSE "list"
  /\ UNCHANGED <<first_kill_time, kill_list_time, frame_list, frame,
                 log_file, typed, log_before, processed>>
  /\ UNCHANGED pure_vars

\* line 151
ListFrames ==
  /\ pc = "list"
  /\ \E entries \in listdir(output_dir) :
       /\ frame_list' = sorted(entries)
       /\ pc' = IF entries = <<>> THEN "done" ELSE "frames"
  /\ frame' = 0
  /\ UNCHANGED <<first_kill_time, kill_list_time, output_dir, log_file,
                 ffmpeg_runs, ffmpeg_result, errors, typed, log_before,
                 processed>>
  /\ UNCHANGED pure_vars

\* lines 155-156: one iteration of the loop, the whole of process_kill_list
ProcessFrame ==
  /\ pc = "frames"
  /\ \E shot \in Shots :
       \E r \in {process_kill_list(log_file, shot.img, shot.text)} :
          /\ log_file' = r.log
          /\ errors' = errors + r.errors
          /\ processed' =
               Append(processed, [file |-> frame_list[frame + 1],
                                  img |-> shot.img, text |-> shot.text,
                                  ocr |-> r.ocr, kill_list |-> r.kill_list])
          /\ frame' = frame + 1
          /\ pc' = IF r.raised THEN "aborted"
                   ELSE IF frame + 1 = Len(frame_list) THEN "done"
                   ELSE "frames"
  /\ UNCHANGED <<first_kill_time, kill_list_time, output_dir, frame_list,
                 ffmpeg_runs, ffmpeg_result, typed, log_before>>
  /\ UNCHANGED pure_vars

Next ==
  \/ PromptFirstKill
  \/ PromptKillList
  \/ ExtractFrames
  \/ ListFrames
  \/ ProcessFrame

Spec == Init /\ [][Next]_vars

----------------------------------------------------------------------------
(* Properties of parse_timestamp (SpecTimestamp) *)

\* an integer literal as int() reads it: optional surrounding whitespace,
\* an optional sign, then digits with single underscores between digits
IsIntLiteral(s) ==
  \E i \in 1..Len(s), j \in 1..Len(s) :
    /\ i <= j
    /\ \A k \in 1..(i - 1) : s[k] \in {" ", "\t", "\n", "\r", "\f"}
    /\ \A k \in (j + 1)..Len(s) : s[k] \in {" ", "\t", "\n", "\r", "\f"}
    /\ LET first == IF s[i] \in {"+", "-"} THEN i + 1 ELSE i
       IN /\ first <= j
          /\ s[first] \in Digits
          /\ s[j] \in Digits
          /\ \A k \in first..j : s[k] \in Digits \cup {"_"}
          /\ \A k \in first..(j - 1) : ~(s[k] = "_" /\ s[k + 1] = "_")

\* the value of an integer literal: its digits weighted by powers of ten
LiteralValue(s) ==
  LET digits == SelectSeq(s, LAMBDA c : c \in Digits)
      n == Len(digits)
      RECURSIVE weighted(_)
      weighted(k) ==
        IF k > n THEN 0
        ELSE (ord(digits[k]) - 48) * 10 ^ (n - k) + weighted(k + 1)
  IN IF "-" \in Range(s) THEN 0 - weighted(1) ELSE weighted(1)

Colons(s) == Cardinality({k \in 1..Len(s) : s[k] = ":"})

BeforeColon(s) ==
  SubSeq(s, 1, (CHOOSE k \in 1..Len(s) : s[k] = ":") - 1)

AfterColon(s) ==
  SubSeq(s, (CHOOSE k \in 1..Len(s) : s[k] = ":") + 1, Len(s))

\* "m:s" with m and s integer literals
IsMinSec(s) ==
  Colons(s) = 1 /\ IsIntLiteral(BeforeColon(s)) /\ IsIntLiteral(AfterColon(s))

\* C4: parse_timestamp gives m*60+s for "m:s" with m and s integer
\* literals ("2:05" gives 125), the integer for an integer literal without
\* ':' ("90" gives 90), and raises for every other input
C4_ParseTimestamp ==
  applied = 1 =>
    /\ IsMinSec(timestamp) =>
         seconds = Returned(LiteralValue(BeforeColon(timestamp)) * 60
                            + LiteralValue(AfterColon(timestamp)))
    /\ (Colons(timestamp) = 0 /\ IsIntLiteral(timestamp)) =>
         seconds = Returned(LiteralValue(timestamp))
    /\ (~IsMinSec(timestamp)
        /\ ~(Colons(timestamp) = 0 /\ IsIntLiteral(timestamp))) =>
         seconds.raised
    /\ timestamp = Chars("2:05") => seconds = Returned(125)
    /\ timestamp = Chars("90") => seconds = Returned(90)

\* "2:05" has been parsed to 125
C4_Witness ==
  applied = 1 /\ timestamp = Chars("2:05") /\ seconds = Returned(125)

----------------------------------------------------------------------------
(* Properties of clean_ocr_line (SpecClean) *)

\* C5: clean_ocr_line is idempotent; its result holds no 'O', 'Q' or '=',
\* only letters, digits, space, ':', '.', ',', '-', and no whitespace at
\* either end; "O1:Q5=Customs" cleans to "01:05-Customs"
C5_CleanIdempotent ==
  /\ applied = 2 => recleaned = cleaned
  /\ applied >= 1 =>
       /\ \A k \in 1..Len(cleaned) :
            /\ cleaned[k] \notin {"O", "Q", "="}
            /\ cleaned[k] \in Letters \cup Digits \cup {" ", ":", ".", ",", "-"}
       /\ cleaned # <<>> => cleaned[1] # " " /\ cleaned[Len(cleaned)] # " "
       /\ line = Chars("O1:Q5=Customs") => cleaned = Chars("01:05-Customs")

\* a line that cleaning changes has been cleaned twice
C5_Witness ==
  /\ applied = 2
  /\ line = Chars("O1:Q5=Customs")
  /\ cleaned = Chars("01:05-Customs")
  /\ recleaned = cleaned

----------------------------------------------------------------------------
(* Properties of parse_kill_list (SpecParse) *)

\* similarity ratio strictly above 0.6
Above06(text, pattern) ==
  10 * ratio(text, pattern).num > 6 * ratio(text, pattern).den

\* both keyword checks pass on the cleaned line
BothKeywords(l) ==
  /\ Above06(clean_ocr_line(l), Chars("Customs"))
  /\ Above06(clean_ocr_line(l), Chars("SCAV"))

Tokens(l) == split(clean_ocr_line(l))

\* one record for each line that passes both checks and has 5 tokens or
\* more, in the order of the lines
RECURSIVE RecordsOf(_)
RecordsOf(lines) ==
  IF lines = <<>> THEN <<>>
  ELSE (IF BothKeywords(Head(lines)) /\ Len(Tokens(Head(lines))) >= 5
        THEN <<kill_record(Tokens(Head(lines)))>>
        ELSE <<>>)
       \o RecordsOf(Tail(lines))

\* C1: parse_kill_list emits, in scan order, one record for each line whose
\* cleaned form has a ratio above 0.6 to both "Customs" and "SCAV" and at
\* least 5 tokens, and nothing for any other line
C1_RecordPerAcceptedLine ==
  applied = 1 =>
    /\ kill_data = RecordsOf(splitlines(ocr_text))
    /\ Len(kill_data) <= Len(splitlines(ocr_text))

\* a line that passes both keyword checks with fewer than 5 tokens, in a
\* text of two lines, has been parsed and gave no record
C1_Witness ==
  /\ applied = 1
  /\ Len(splitlines(ocr_text)) = 2
  /\ \E k \in 1..2 :
       /\ BothKeywords(splitlines(ocr_text)[k])
       /\ Len(Tokens(splitlines(ocr_text)[k])) < 5
  /\ kill_data = <<>>

\* C2: the line "12:34 Customs PMC SCAV AK-74" is accepted and gives the
\* one record with timestamp "Customs", name "PMC", faction "AK-74" and an
\* empty weapon
C2_ScenarioLineAccepted ==
  (applied = 1 /\ ocr_text = Chars("12:34 Customs PMC SCAV AK-74")) =>
    kill_data = <<Chars("Time: Customs | Name: PMC | Faction: AK-74 | Weapon: ")>>

\* C10: parse_kill_list returns the empty list for every text
C10_NothingEverAccepted == applied = 1 => kill_data = <<>>

\* a line of 5 tokens and length 9 that passes the "SCAV" check has been
\* parsed
C10_Witness ==
  /\ applied = 1
  /\ Len(splitlines(ocr_text)) = 1
  /\ Len(Tokens(ocr_text)) >= 5
  /\ Len(clean_ocr_line(ocr_text)) = 9
  /\ Above06(clean_ocr_line(ocr_text), Chars("SCAV"))
  /\ kill_data = <<>>

----------------------------------------------------------------------------
(* Properties of the main process (Spec) *)

\* the records of the processed frames, frame by frame, each on its own line
RECURSIVE LoggedBy(_)
LoggedBy(frames) ==
  IF frames = <<>> THEN <<>>
  ELSE LET kills == Head(frames).kill_list
       IN [k \in 1..Len(kills) |-> kills[k] \o <<"\n">>]
          \o LoggedBy(Tail(frames))

RECURSIVE Concat(_)
Concat(parts) ==
  IF parts = <<>> THEN <<>> ELSE Head(parts) \o Concat(Tail(parts))

\* C3: at every point of a run the log is its content before the run
\* followed by the records parse_kill_list gave for each processed frame,
\* in processing order and in the matcher's order, one per line
C3_LogRoundTrip ==
  /\ log_file = log_before \o Concat(LoggedBy(processed))
  /\ \A k \in 1..Len(processed) :
       processed[k].kill_list =
         IF processed[k].ocr THEN parse_kill_list(processed[k].text)
         ELSE <<>>

\* a run over a log that held records has ended after OCR of two frames
\* that showed text
C3_Witness ==
  /\ pc = "done"
  /\ log_before # <<>>
  /\ \E i \in 1..Len(processed), j \in 1..Len(processed) :
       /\ i < j
       /\ processed[i].ocr /\ processed[i].text # <<>>
       /\ processed[j].ocr /\ processed[j].text # <<>>

FilesOf(frames) == [k \in 1..Len(frames) |-> frames[k].file]

\* C6: after a decoder failure (a non-zero exit code, or an exception of
\* the invocation) an error has been reported, the run does not abort, it
\* can always go on until it is done, and when it is done it has processed
\* every file of the frames directory
C6_DecoderFailureNonFatal ==
  ffmpeg_result \in {"nonzero", "exception"} =>
    /\ errors >= 1
    /\ pc \in {"list", "frames", "done"}
    /\ pc # "done" => ENABLED Next
    /\ pc = "done" =>
         /\ {processed[k].file : k \in 1..Len(processed)} = output_dir
         /\ Len(processed) = Cardinality(output_dir)

\* the invocation raised, and the run went on to process the files the
\* directory held and ended
C6_Witness ==
  /\ ffmpeg_result = "exception"
  /\ pc = "done"
  /\ Len(processed) = 2

\* C7: a frame that does not load is reported, gets no OCR and no write to
\* the log, and the loop goes on with the next frame; a run that ends has
\* taken every frame of the list
C7_UnreadableFrameSkipped ==
  /\ [][(pc = "frames" /\ Len(processed') = Len(processed) + 1
         /\ processed'[Len(processed')].img = "None")
        => /\ log_file' = log_file
           /\ errors' = errors + 1
           /\ ~processed'[Len(processed')].ocr
           /\ frame' = frame + 1
           /\ pc' = IF frame' = Len(frame_list) THEN "done" ELSE "frames"]_vars
  /\ [](pc = "done" => Len(processed) = Len(frame_list))

\* a run has ended in which a frame did not load and a later one was read
C7_Witness ==
  /\ pc = "done"
  /\ \E i \in 1..Len(processed), j \in 1..Len(processed) :
       i < j /\ processed[i].img = "None" /\ processed[j].ocr

\* what was typed is, once stripped, "m:s" or an integer literal
Parsable(answer) == IsMinSec(answer) \/ (Colons(answer) = 0 /\ IsIntLiteral(answer))

\* C8: the decoder is invoked at most once, and only after both prompts
\* gave a timestamp; after an unparsable answer the process has aborted
\* with no decoder invocation, no frame processed and the log untouched
C8_TimestampGating ==
  /\ ffmpeg_runs <= 1
  /\ ffmpeg_runs = 1 =>
       /\ Len(typed) = 2
       /\ first_kill_time.set
       /\ kill_list_time.set
  /\ (\E k \in 1..Len(typed) : ~Parsable(typed[k])) =>
       /\ pc = "aborted"
       /\ ffmpeg_runs = 0
       /\ processed = <<>>
       /\ log_file = log_before
       /\ frame_list = <<>>

\* the first prompt gave a timestamp and the second answer did not parse
C8_Witness ==
  /\ Len(typed) = 2
  /\ first_kill_time.set
  /\ ~Parsable(typed[2])
  /\ pc = "aborted"

\* C9: the frames are processed after the decoder call, one by one in
\* ascending filename order, each file of the directory exactly once
C9_FrameOrder ==
  /\ processed # <<>> => ffmpeg_runs = 1
  /\ pc \in {"frames", "done"} =>
       /\ {frame_list[k] : k \in 1..Len(frame_list)} = output_dir
       /\ Len(frame_list) = Cardinality(output_dir)
       /\ \A i \in 1..Len(frame_list), j \in 1..Len(frame_list) :
            i < j => str_less(frame_list[i], frame_list[j])
       /\ Len(processed) = frame
       /\ FilesOf(processed) = SubSeq(frame_list, 1, frame)
  /\ pc = "frames" => frame < Len(frame_list)
  /\ pc = "done" => frame = Len(frame_list)

\* a run has ended that took a leftover file with a capital first, then
\* two new frames, then a leftover frame with a higher number
C9_Witness ==
  /\ pc = "done"
  /\ FilesOf(processed) =
       << Chars("Thumbs.db"), Chars("end_0001.png"), Chars("end_0002.png"),
          Chars("end_0010.png") >>

====
